---- MODULE Spec2Model ----
(***************************************************************************)
(* LSB steganography with Reed-Solomon block framing (src/src/lib.rs).     *)
(*                                                                         *)
(* The image is the RGBA8 buffer of the image crate: a flat byte vector,   *)
(* byte 4*(y*width+x)+c being channel c of pixel (x,y).  PNG reading and   *)
(* writing of an RGBA8 buffer is lossless and is not modelled.             *)
(*                                                                         *)
(* encode_img_inner is modelled statement by statement: one step for       *)
(* encode_ecc, one for the capacity test, one per iteration of the outer   *)
(* loop over the blocks.  The two inner loops of an iteration are folded   *)
(* over their index ranges, each iteration being the loop body applied to  *)
(* the state the previous one left.  decode_img_inner only reads the image *)
(* and is one step.                                                        *)
(*                                                                         *)
(* The reed_solomon crate is a dependency, not part of the repository.     *)
(* Its encoder is modelled as a systematic code: data() is the input,      *)
(* ecc() is ECC_CODE_LEN bytes that are a function of the input.  Its      *)
(* decoder is modelled by the bound the source states at lib.rs:10: a      *)
(* received block is corrected to the codeword that was sent when at most  *)
(* ECC_CODE_LEN/2 of its bytes differ from it, and is reported corrupted   *)
(* otherwise.                                                              *)
(***************************************************************************)
EXTENDS Integers, Sequences, FiniteSets, TLC

VARIABLES
    width, height,      \* img.dimensions()
    input,              \* the payload bytes
    variant,            \* which carrier/payload pattern the run started from
    img,                \* the RGBA8 buffer encode mutates
    blocks,             \* Vec<reed_solomon::Buffer> returned by encode_ecc
    block_region_size,
    pc,                 \* position in encode_img_inner / decode_img_inner
    i,                  \* index of the outer loop of encode_img_inner
    wlog,               \* history: one record per pixel write, in order
    ncorrupt,           \* number of block bytes damaged after encode
    result,             \* value returned by decode_img_inner
    sw, sh, si, sx, sy, sdir, visited, scoord   \* spiral walk

vars == <<width, height, input, variant, img, blocks, block_region_size,
          pc, i, wlog, ncorrupt, result,
          sw, sh, si, sx, sy, sdir, visited, scoord>>

spiralVars == <<sw, sh, si, sx, sy, sdir, visited, scoord>>

encVars == <<width, height, input, variant, img, blocks, block_region_size,
             pc, i, wlog, ncorrupt, result>>

----------------------------------------------------------------------------
(* Program constants *)

ECC_BLOCK_LEN == 255

ECC_CODE_LEN == 32

ECC_DATA_LEN == ECC_BLOCK_LEN - 32

USIZE_SIZE == 8

\* number of channels of an Rgba<u8> pixel
CHANNELS == 4

----------------------------------------------------------------------------
(* Bounds of the model *)

\* carrier/payload patterns 0..MaxVariant
MaxVariant == 1

\* payload lengths 0..MaxLen for the block-framing specification
MaxLen == 447

\* spiral rectangles up to MaxSide x MaxSide
MaxSide == 6

----------------------------------------------------------------------------
(* Inputs *)

\* payload patterns; pattern 1 is the bitwise complement of pattern 0
PayloadByte(k, v) ==
    IF v = 0 THEN (k * 37 + 11) % 256
    ELSE IF v = 1 THEN 255 - ((k * 37 + 11) % 256)
    ELSE (k * k + v) % 256

MkPayload(n, v) == [k \in 1..n |-> PayloadByte(k, v)]

\* carrier patterns (all four channels of every pixel)
CarrierByte(k, v) ==
    IF v = 0 THEN (k * 7 + 3) % 256
    ELSE IF v = 1 THEN 255 - ((k * 7 + 3) % 256)
    ELSE (k * 13 + v) % 256

Carrier(w, h, v) == [k \in 1..(CHANNELS * w * h) |-> CarrierByte(k, v)]

\* <<width, height, payload length>>
Configs ==
    { <<15, 16, 0>>,     \* 240 pixels: below 255
      <<15, 17, 0>>,     \* 255 pixels: passes the test, header needs 320
      <<16, 16, 0>>,     \* 256 pixels
      <<20, 16, 0>>,     \* 320 pixels: header fits exactly
      <<19, 17, 0>>,     \* 323 pixels: remainder pixels
      <<30, 16, 1>>,     \* 480 pixels, 2 blocks: below 510
      <<30, 20, 1>>,     \* 600 pixels, regions of 300: header runs into block 1
      <<43, 14, 1>>,     \* 602 pixels, regions of 301
      <<32, 20, 1>>,     \* 640 pixels, regions of 320
      <<30, 17, 223>>,   \* 510 pixels, 2 blocks, block 1 needs 2040
      <<51, 60, 224>>,   \* 3060 pixels, 3 blocks, regions of 1020
      <<41, 64, 224>>,   \* 2624 pixels = the 2624 bits of the three blocks, regions of 874
      <<72, 85, 224>>,   \* 6120 pixels, regions of 2040
      <<51, 60, 287>> }  \* 3060 pixels, regions of 1020, last block of 64 + 32 bytes

----------------------------------------------------------------------------
(* reed_solomon::Encoder::encode, as a systematic code.  The parity bytes   *)
(* of the crate are not computed here: Parity is a fixed function of the   *)
(* data that stands for them.  The properties below are about lengths,     *)
(* slots and least-significant bits and about how many bytes of a block    *)
(* differ from what was written, not about the values of the parity bytes. *)

\* sums over s[lo..hi], split in halves to keep the evaluation shallow
RECURSIVE SumBytes(_, _, _)
SumBytes(s, lo, hi) ==
    IF lo > hi THEN 0
    ELSE IF lo = hi THEN s[lo]
    ELSE LET mid == (lo + hi) \div 2
         IN  SumBytes(s, lo, mid) + SumBytes(s, mid + 1, hi)

RECURSIVE WSumBytes(_, _, _)
WSumBytes(s, lo, hi) ==
    IF lo > hi THEN 0
    ELSE IF lo = hi THEN lo * s[lo]
    ELSE LET mid == (lo + hi) \div 2
         IN  WSumBytes(s, lo, mid) + WSumBytes(s, mid + 1, hi)

\* the ECC_CODE_LEN parity bytes: a function of the data alone
Parity(data) ==
    LET s1 == SumBytes(data, 1, Len(data))
        s2 == WSumBytes(data, 1, Len(data))
    IN  [t \in 1..ECC_CODE_LEN |-> (s1 * t + s2 + t * t + 29 * Len(data)) % 256]

RsEncode(data) == [data |-> data, ecc |-> Parity(data)]

\* the bytes of a buffer as stored: data followed by ecc
Codeword(b) == b.data \o b.ecc

----------------------------------------------------------------------------
(* encode_ecc *)

\* (input.len() as u64).to_le_bytes()
RECURSIVE Shr8(_, _)
Shr8(n, t) == IF t = 0 THEN n ELSE Shr8(n \div 256, t - 1)

ToLeBytes(n) == [t \in 1..USIZE_SIZE |-> Shr8(n, t - 1) % 256]

SubSeqFrom(s, a, b) == [k \in 1..(b - a) |-> s[a + k]]

\* mutant: one block too many when the length is a multiple of ECC_DATA_LEN
NumBlocksFloorPlusOne(n) == n \div ECC_DATA_LEN + 1

NumBlocks(n) == (n + ECC_DATA_LEN - 1) \div ECC_DATA_LEN

\* the slice pushed for data block m (0-based), lib.rs:145-150
Slice(inp, m) ==
    LET offset == m * ECC_DATA_LEN
    IN  IF Len(inp) - offset < ECC_DATA_LEN
        THEN SubSeqFrom(inp, offset, Len(inp))
        ELSE SubSeqFrom(inp, offset, offset + ECC_DATA_LEN)

encode_ecc(inp) ==
    LET num_blocks == NumBlocks(Len(inp))
    IN  <<RsEncode(ToLeBytes(Len(inp)))>> \o
        [m \in 1..num_blocks |-> RsEncode(Slice(inp, m - 1))]

----------------------------------------------------------------------------
(* encode_img_inner.  width * height and ECC_BLOCK_LEN * blocks.len() are   *)
(* u32 in the source; the carriers of Configs stay far below 2^32.         *)

\* index (1-based) in the RGBA8 buffer of channel c of pixel (x, y)
PixIdx(w, x, y, c) == CHANNELS * (y * w + x) + c + 1

\* mutant: the mask clears two bits (0xFC)
SetLsbMaskFC(v, bit) == (v - (v % 4)) + bit

\* pixel[chan] & 0xFE | bit
SetLsb(v, bit) == (v - (v % 2)) + bit

\* (block_byte >> (k % 8)) & 0x1
BitOf(byte, k) == (byte \div (2 ^ (k % 8))) % 2

NextChan(c) == (c + 1) % 3

\* lib.rs:38
TooSmall(w, h, nblocks) == w * h < ECC_BLOCK_LEN * nblocks

InitEnc ==
    /\ \E cfg \in Configs, v \in 0..MaxVariant :
          /\ width = cfg[1]
          /\ height = cfg[2]
          /\ input = MkPayload(cfg[3], v)
          /\ variant = v
          /\ img = Carrier(cfg[1], cfg[2], v)
    /\ blocks = <<>>
    /\ block_region_size = 0
    /\ pc = "start"
    /\ i = 0
    /\ wlog = <<>>
    /\ ncorrupt = 0
    /\ result = [kind |-> "None"]

NoSpiral ==
    /\ sw = 0 /\ sh = 0 /\ si = 0 /\ sx = 0 /\ sy = 0
    /\ sdir = "none" /\ visited = {} /\ scoord = <<>>

\* lib.rs:35
EncodeEcc ==
    /\ pc = "start"
    /\ blocks' = encode_ecc(input)
    /\ pc' = "check"
    /\ UNCHANGED <<width, height, input, variant, img, block_region_size,
                   i, wlog, ncorrupt, result>>
    /\ UNCHANGED spiralVars

\* the body of an inner loop (lib.rs:48-54, 57-63) at index k: bit k of
\* `bytes` goes to flat pixel offset k + base.  st holds the image, chan,
\* the write log and whether get_pixel_mut has panicked (nothing runs after).
\* A log record tells the block, the part ("data"/"ecc"), the index in the
\* part's byte vector and the bit position, and the slot written.
WriteBit(st, w, h, blk, part, bytes, base, k) ==
    IF st.panicked THEN st
    ELSE
    LET x == (k + base) % w
        y == (k + base) \div w
        block_byte == bytes[(k \div 8) + 1]
        bit == BitOf(block_byte, k)
        idx == PixIdx(w, x, y, st.chan)
    IN  IF x >= w \/ y >= h
        THEN [st EXCEPT !.panicked = TRUE]
        ELSE [img |-> [st.img EXCEPT ![idx] = SetLsb(st.img[idx], bit)],
              chan |-> NextChan(st.chan),
              log |-> Append(st.log, [blk |-> blk, part |-> part, byte |-> k \div 8,
                                      bitpos |-> k % 8, x |-> x, y |-> y,
                                      chan |-> st.chan]),
              panicked |-> FALSE]

\* for k in lo..=hi { body }, evaluated in order (the range is split in halves
\* to keep the evaluation shallow); a panic ends the loop
RECURSIVE WriteBits(_, _, _, _, _, _, _, _, _)
WriteBits(st, w, h, blk, part, bytes, base, lo, hi) ==
    IF lo > hi THEN st
    ELSE IF lo = hi THEN WriteBit(st, w, h, blk, part, bytes, base, lo)
    ELSE LET mid == (lo + hi) \div 2
             left == WriteBits(st, w, h, blk, part, bytes, base, lo, mid)
         IN  IF left.panicked THEN left
             ELSE WriteBits(left, w, h, blk, part, bytes, base, mid + 1, hi)

\* mutant: chan is reset between the data loop and the parity loop
WriteBlockBodyResetChan(im, lg, w, h, region, blk, block) ==
    LET block_start == blk * region
        st0 == [img |-> im, chan |-> 0, log |-> lg, panicked |-> FALSE]
        st1 == WriteBits(st0, w, h, blk, "data", block.data, block_start,
                         0, Len(block.data) * 8 - 1)
    IN  WriteBits([st1 EXCEPT !.chan = 0], w, h, blk, "ecc", block.ecc,
                  block_start + Len(block.data) * 8,
                  0, Len(block.ecc) * 8 - 1)

\* lib.rs:45-64: one iteration of the outer loop
WriteBlockBody(im, lg, w, h, region, blk, block) ==
    LET block_start == blk * region
        st0 == [img |-> im, chan |-> 0, log |-> lg, panicked |-> FALSE]
        st1 == WriteBits(st0, w, h, blk, "data", block.data, block_start,
                         0, Len(block.data) * 8 - 1)
    IN  WriteBits(st1, w, h, blk, "ecc", block.ecc,
                  block_start + Len(block.data) * 8,
                  0, Len(block.ecc) * 8 - 1)

\* mutant: the first bit is written before the capacity test
CheckCapacityAfterWrite ==
    /\ pc = "check"
    /\ LET st == WriteBit([img |-> img, chan |-> 0, log |-> wlog, panicked |-> FALSE],
                          width, height, 0, "data", blocks[1].data, 0, 0)
       IN  IF TooSmall(width, height, Len(blocks))
           THEN /\ pc' = "too_small"
                /\ img' = st.img
                /\ wlog' = st.log
                /\ UNCHANGED <<block_region_size, i>>
           ELSE /\ block_region_size' = (width * height) \div Len(blocks)
                /\ i' = 0
                /\ pc' = "write"
                /\ UNCHANGED <<img, wlog>>
    /\ UNCHANGED <<width, height, input, variant, blocks, ncorrupt, result>>
    /\ UNCHANGED spiralVars

\* lib.rs:38-42: the capacity test, then the region size
CheckCapacity ==
    /\ pc = "check"
    /\ IF TooSmall(width, height, Len(blocks))
       THEN /\ pc' = "too_small"
            /\ UNCHANGED <<block_region_size, i>>
       ELSE /\ block_region_size' = (width * height) \div Len(blocks)
            /\ i' = 0
            /\ pc' = "write"
    /\ UNCHANGED <<width, height, input, variant, img, blocks,
                   wlog, ncorrupt, result>>
    /\ UNCHANGED spiralVars

\* lib.rs:44-65
WriteBlock ==
    /\ pc = "write"
    /\ i < Len(blocks)
    /\ LET st == WriteBlockBody(img, wlog, width, height, block_region_size,
                                i, blocks[i + 1])
       IN  /\ img' = st.img
           /\ wlog' = st.log
           /\ IF st.panicked
              THEN pc' = "panic" /\ i' = i
              ELSE /\ i' = i + 1
                   /\ pc' = IF i + 1 < Len(blocks) THEN "write" ELSE "encoded"
    /\ UNCHANGED <<width, height, input, variant, blocks, block_region_size,
                   ncorrupt, result>>
    /\ UNCHANGED spiralVars

----------------------------------------------------------------------------
(* damage to the encoded image between encode and decode *)

\* buffer index of the slot holding bit bitIdx of block k (lib.rs:45-63)
SlotIdx(k, bitIdx) ==
    LET off == k * block_region_size + bitIdx
    IN  PixIdx(width, off % width, off \div width, bitIdx % 3)

FlipLsb(v) == IF v % 2 = 0 THEN v + 1 ELSE v - 1

\* numbers of bytes damaged: one, the most the code corrects, one more
CorruptCounts == {1, ECC_CODE_LEN \div 2, ECC_CODE_LEN \div 2 + 1}

\* bit 0 of n consecutive bytes of one block is flipped in the image
Corrupt ==
    /\ pc = "encoded"
    /\ \E k \in 0..(Len(blocks) - 1), n \in CorruptCounts :
         \E from \in {0, Len(Codeword(blocks[k + 1])) - n} :
            LET hit == {SlotIdx(k, 8 * b) : b \in from..(from + n - 1)}
            IN  /\ img' = [m \in 1..Len(img) |->
                              IF m \in hit THEN FlipLsb(img[m]) ELSE img[m]]
                /\ ncorrupt' = n
    /\ pc' = "corrupted"
    /\ UNCHANGED <<width, height, input, variant, blocks, block_region_size,
                   i, wlog, result>>
    /\ UNCHANGED spiralVars

----------------------------------------------------------------------------
(* reed_solomon::Decoder::correct and decode_ecc *)

Ok(v) == [kind |-> "Ok", data |-> v]

Err == [kind |-> "Err"]

Panic == [kind |-> "Panic"]

\* number of byte positions in which two blocks of equal length differ
Dist(a, b) == Cardinality({k \in 1..Len(a) : a[k] # b[k]})

\* decoder.correct(&block, None), given the codeword that was sent
correct(block, sent) ==
    IF Len(block) = Len(sent.data) + Len(sent.ecc)
       /\ Dist(block, Codeword(sent)) <= ECC_CODE_LEN \div 2
    THEN Ok(sent.data)
    ELSE Err

RECURSIVE ConcatData(_, _, _)
ConcatData(blks, sent, m) ==
    IF m > Len(blks) THEN <<>>
    ELSE correct(blks[m], sent[m]).data \o ConcatData(blks, sent, m + 1)

\* lib.rs:155-165: the first block that cannot be corrected fails the call
decode_ecc(blks, sent) ==
    IF \E m \in 1..Len(blks) : correct(blks[m], sent[m]).kind = "Err"
    THEN Err
    ELSE Ok(ConcatData(blks, sent, 1))

----------------------------------------------------------------------------
(* decode_img_inner *)

\* LittleEndian::read_uint(bytes, USIZE_SIZE)
RECURSIVE ReadUintLe(_, _)
ReadUintLe(bytes, t) ==
    IF t > Len(bytes) THEN 0 ELSE bytes[t] + 256 * ReadUintLe(bytes, t + 1)

\* lib.rs:102
DecNumBlocks(data_len) == (data_len + ECC_DATA_LEN - 1) \div ECC_DATA_LEN

\* lib.rs:105
DecRegionSize(w, h, num_blocks) == (w * h) \div (num_blocks + 1)

\* lib.rs:109-128: data_left before block m, and the data length of block m
RECURSIVE DataLeft(_, _)
DataLeft(data_len, m) ==
    IF m = 1 THEN data_len
    ELSE LET before == DataLeft(data_len, m - 1)
         IN  before - (IF before > ECC_DATA_LEN THEN ECC_DATA_LEN ELSE before)

DecBlockDataLen(data_len, m) ==
    LET data_left == DataLeft(data_len, m)
    IN  IF data_left > ECC_DATA_LEN THEN ECC_DATA_LEN ELSE data_left

\* chan starts at 0 and is advanced once per iteration (lib.rs:85,94,118,125)
DecChan(bitIdx) == bitIdx % 3

\* the slot read for bit bitIdx of the block starting at block_start:
\* <<x, y, channel, byte index, bit position>>
DecSlot(w, block_start, bitIdx) ==
    <<(bitIdx + block_start) % w, (bitIdx + block_start) \div w,
      DecChan(bitIdx), bitIdx \div 8, bitIdx % 8>>

\* block[b] after the 8 iterations that or a bit into it
ReadByte(im, w, block_start, b) ==
    LET bitAt(t) ==
          LET s == DecSlot(w, block_start, 8 * b + t)
          IN  im[PixIdx(w, s[1], s[2], s[3])] % 2
    IN  bitAt(0) + 2 * bitAt(1) + 4 * bitAt(2) + 8 * bitAt(3)
        + 16 * bitAt(4) + 32 * bitAt(5) + 64 * bitAt(6) + 128 * bitAt(7)

ReadBlock(im, w, block_start, nbytes) ==
    [b \in 1..nbytes |-> ReadByte(im, w, block_start, b - 1)]

\* get_pixel panics on a pixel outside the image
ReadPanics(w, h, block_start, nbytes) ==
    nbytes > 0 /\ (block_start + 8 * nbytes - 1) \div w >= h

decode_img_inner(im, w, h, sent) ==
    LET hdr_len == USIZE_SIZE + ECC_CODE_LEN
    IN
    IF ReadPanics(w, h, 0, hdr_len) THEN Panic
    ELSE
    LET decoded_len_block == decode_ecc(<<ReadBlock(im, w, 0, hdr_len)>>, <<sent[1]>>)
    IN
    IF decoded_len_block.kind = "Err" THEN Err
    ELSE
    LET data_len == ReadUintLe(SubSeq(decoded_len_block.data, 1, USIZE_SIZE), 1)
        num_blocks == DecNumBlocks(data_len)
        region == DecRegionSize(w, h, num_blocks)
        lenOf(m) == DecBlockDataLen(data_len, m) + ECC_CODE_LEN
        sentOf(m) == IF m + 1 <= Len(sent) THEN sent[m + 1]
                     ELSE [data |-> <<>>, ecc |-> <<>>]
    IN
    IF \E m \in 1..num_blocks : ReadPanics(w, h, m * region, lenOf(m)) THEN Panic
    ELSE decode_ecc([m \in 1..num_blocks |-> ReadBlock(im, w, m * region, lenOf(m))],
                    [m \in 1..num_blocks |-> sentOf(m)])

\* lib.rs:77-133, on the image encode returned (possibly damaged since)
Decode ==
    /\ pc \in {"encoded", "corrupted"}
    /\ result' = decode_img_inner(img, width, height, blocks)
    /\ pc' = "decoded"
    /\ UNCHANGED <<width, height, input, variant, img, blocks, block_region_size,
                   i, wlog, ncorrupt>>
    /\ UNCHANGED spiralVars

NextEnc == EncodeEcc \/ CheckCapacity \/ WriteBlock \/ Corrupt \/ Decode

Init == InitEnc /\ NoSpiral

Next == NextEnc

\* encode, optional damage, decode over the carriers and payloads of Configs
Spec == Init /\ [][Next]_vars

----------------------------------------------------------------------------
(* encode_ecc alone, over every payload length up to MaxLen *)

InitEcc ==
    /\ \E n \in 0..MaxLen, v \in 0..MaxVariant :
          /\ input = MkPayload(n, v)
          /\ variant = v
    /\ width = 1 /\ height = 1
    /\ img = <<>>
    /\ blocks = <<>>
    /\ block_region_size = 0
    /\ pc = "start"
    /\ i = 0
    /\ wlog = <<>>
    /\ ncorrupt = 0
    /\ result = [kind |-> "None"]
    /\ NoSpiral

NextEcc == EncodeEcc

SpecEcc == InitEcc /\ [][NextEcc]_vars

----------------------------------------------------------------------------
(* Spiral index mapper.  The repository's source under src/ does not hold  *)
(* it; it is modelled from section 4.2 of the specification.               *)

None == [some |-> FALSE]

Some(c) == [some |-> TRUE, coord |-> c]

\* least r with r * r >= n
CeilSqrt(n) == CHOOSE r \in 0..n : r * r >= n /\ (r = 0 \/ (r - 1) * (r - 1) < n)

\* greatest r with r * r <= n
FloorSqrt(n) == CHOOSE r \in 0..n : r * r <= n /\ (r + 1) * (r + 1) > n

\* the ring holding index idx: the integer part of the smaller root of
\* 4 l^2 - 2 (w + h) l + idx = 0, that is of ((w + h) - sqrt((w + h)^2 - 4 idx)) / 4
SpiralLevelFloorSqrt(w, h, idx) == ((w + h) - FloorSqrt((w + h) * (w + h) - 4 * idx)) \div 4

SpiralLevel(w, h, idx) == ((w + h) - CeilSqrt((w + h) * (w + h) - 4 * idx)) \div 4

\* index of the first cell of ring l: the cells of the rings outside it
StartCoordsIndex(w, h, l) == 2 * l * (w + h) - 4 * l * l

spiral_coord(w, h, idx) ==
    IF idx >= w * h THEN None
    ELSE
    LET l == SpiralLevel(w, h, idx)
        vlen == h - 2 * l - 1
        hlen == w - 2 * l - 1
        r0 == idx - StartCoordsIndex(w, h, l)
        r1 == r0 - vlen
        r2 == r1 - hlen
        r3 == r2 - vlen
    IN  IF r0 < vlen THEN Some(<<l, l + r0>>)                  \* down the left edge
        ELSE IF r1 < hlen THEN Some(<<l + r1, l + vlen>>)      \* across the bottom edge
        ELSE IF r2 < vlen THEN Some(<<l + hlen, l + vlen - r2>>) \* up the right edge
        ELSE IF r3 < hlen THEN Some(<<l + hlen - r3, l>>)      \* across the top edge
        ELSE Some(<<l, l>>)                                    \* the single cell left

\* reference walker: keeps its direction while the next cell is inside the
\* rectangle and not yet visited, and turns (down, right, up, left) otherwise
Ahead(x, y, d) ==
    IF d = "down" THEN <<x, y + 1>>
    ELSE IF d = "right" THEN <<x + 1, y>>
    ELSE IF d = "up" THEN <<x, y - 1>>
    ELSE <<x - 1, y>>

Turn(d) ==
    IF d = "down" THEN "right"
    ELSE IF d = "right" THEN "up"
    ELSE IF d = "up" THEN "left"
    ELSE "down"

Free(c, w, h, seen) ==
    c[1] >= 0 /\ c[1] < w /\ c[2] >= 0 /\ c[2] < h /\ c \notin seen

NoEnc ==
    /\ width = 1 /\ height = 1 /\ input = <<>> /\ variant = 0 /\ img = <<>>
    /\ blocks = <<>> /\ block_region_size = 0 /\ pc = "spiral" /\ i = 0
    /\ wlog = <<>> /\ ncorrupt = 0 /\ result = [kind |-> "None"]

InitSpiral ==
    /\ sw \in 1..MaxSide
    /\ sh \in 1..MaxSide
    /\ si = 0
    /\ sx = 0 /\ sy = 0
    /\ sdir = "down"
    /\ visited = {<<0, 0>>}
    /\ scoord = spiral_coord(sw, sh, 0)
    /\ NoEnc

\* the next index inside the rectangle: the walker moves one cell
SpiralStep ==
    /\ si + 1 < sw * sh
    /\ si' = si + 1
    /\ LET d == IF Free(Ahead(sx, sy, sdir), sw, sh, visited) THEN sdir ELSE Turn(sdir)
           c == Ahead(sx, sy, d)
       IN  /\ sdir' = d
           /\ IF Free(c, sw, sh, visited)
              THEN sx' = c[1] /\ sy' = c[2] /\ visited' = visited \cup {c}
              ELSE UNCHANGED <<sx, sy, visited>>
    /\ scoord' = spiral_coord(sw, sh, si + 1)
    /\ UNCHANGED <<sw, sh>>
    /\ UNCHANGED encVars

\* indices past the last cell
SpiralBeyond ==
    /\ si + 1 >= sw * sh
    /\ si + 1 < sw * sh + 3
    /\ si' = si + 1
    /\ scoord' = spiral_coord(sw, sh, si + 1)
    /\ UNCHANGED <<sw, sh, sx, sy, sdir, visited>>
    /\ UNCHANGED encVars

NextSpiral == SpiralStep \/ SpiralBeyond

SpecSpiral == InitSpiral /\ [][NextSpiral]_vars
----------------------------------------------------------------------------
(* Properties *)

\* the carrier the run started from
Original == Carrier(width, height, variant)

\* encode passed the capacity test
Accepted == pc \in {"write", "panic", "encoded", "corrupted", "decoded"}

\* the index of a log record's bit among all the bits of its block
BlockBit(e) ==
    (IF e.part = "data" THEN 0 ELSE 8 * Len(blocks[e.blk + 1].data))
    + 8 * e.byte + e.bitpos

\* the number of bit-slots a block needs
BlockBits(b) == 8 * (Len(b.data) + Len(b.ecc))

RECURSIVE BitsBefore(_)
BitsBefore(k) == IF k = 0 THEN 0 ELSE BitsBefore(k - 1) + BlockBits(blocks[k])

\* 8 * (total byte length of the header block and all data blocks)
RequiredBits == BitsBefore(Len(blocks))

\* the pixels (flat offsets) that carry a bit of block k
PixelsOf(k) == {wlog[m].y * width + wlog[m].x : m \in {n \in 1..Len(wlog) : wlog[n].blk = k}}

WrittenSlots == {<<wlog[m].x, wlog[m].y, wlog[m].chan>> : m \in 1..Len(wlog)}

\* C1: round trip.  Whenever encode accepts the carrier it returns an image,
\* and decoding that image returns exactly the payload.
C1_RoundTrip ==
    /\ pc # "panic"
    /\ (pc = "decoded" /\ ncorrupt = 0) => result = Ok(input)

\* C2: capacity rejection.  Once the capacity test has run, a carrier with
\* fewer pixels than 8 * (total bytes of all blocks) has been rejected.
C2_CapacityRejection ==
    (pc \notin {"start", "check"} /\ width * height < RequiredBits) => pc = "too_small"

\* C3: placement is injective.  No two writes of an encode go to the same
\* (pixel, channel), and no pixel carries bits of two consecutive blocks.
C3_PlacementInjective ==
    /\ Cardinality(WrittenSlots) = Len(wlog)
    /\ \A k \in 0..(Len(blocks) - 2) : PixelsOf(k) \cap PixelsOf(k + 1) = {}

\* C4: non-destructive embedding.  During and after encode every byte of the
\* image differs from the original carrier at most in its least-significant
\* bit; alpha bytes and every byte of a pixel that carries no bit are equal
\* to the original.
C4_NonDestructive ==
    pc \in {"write", "panic", "encoded"} =>
        LET orig == Original
            used == {wlog[m].y * width + wlog[m].x : m \in 1..Len(wlog)}
        IN  /\ Len(img) = Len(orig)
            /\ \A k \in 1..Len(img) :
                  /\ img[k] \div 2 = orig[k] \div 2
                  /\ img[k] - orig[k] \in {-1, 0, 1}
                  /\ (k - 1) % CHANNELS = 3 => img[k] = orig[k]
                  /\ ((k - 1) \div CHANNELS) \notin used => img[k] = orig[k]

\* C4 witness: an encode has succeeded, changed a byte, and left a pixel unused
C4_Witness ==
    /\ pc = "encoded"
    /\ \E k \in 1..Len(img) : img[k] # Original[k]
    /\ \E q \in 0..(width * height - 1) : \A m \in 1..Len(wlog) : wlog[m].y * width + wlog[m].x # q

\* C5: corruption tolerance.  After a successful encode, damage to at most
\* ECC_CODE_LEN/2 = 16 bytes of one block still decodes to the payload, and
\* damage to 17 bytes of one block makes decode fail.
C5_CorruptionTolerance ==
    pc = "decoded" =>
        /\ ncorrupt <= ECC_CODE_LEN \div 2 => result = Ok(input)
        /\ ncorrupt > ECC_CODE_LEN \div 2 => result = Err

\* ceil(n / 223), computed without the code's formula
CeilDiv(n, d) == IF n % d = 0 THEN n \div d ELSE n \div d + 1

Min(a, b) == IF a < b THEN a ELSE b

\* C6: block framing.  encode_ecc returns 1 + ceil(n/223) blocks: the header,
\* whose data is the 8-byte little-endian n, then the consecutive 223-byte
\* slices of the payload, only the last possibly shorter and none empty; the
\* data lengths sum to n and every block has 32 parity bytes.
C6_BlockFraming ==
    pc # "start" =>
        LET n == Len(input)
            N == CeilDiv(n, 223)
            hdr == blocks[1].data
        IN  /\ Len(blocks) = 1 + N
            /\ Len(hdr) = 8
            /\ hdr[1] = n % 256 /\ hdr[2] = (n \div 256) % 256
            /\ \A t \in 3..8 : hdr[t] = 0
            /\ \A m \in 1..N :
                  LET d == blocks[m + 1].data
                      first == 223 * (m - 1)
                  IN  /\ Len(d) = Min(223, n - first)
                      /\ Len(d) > 0
                      /\ m < N => Len(d) = 223
                      /\ \A t \in 1..Len(d) : d[t] = input[first + t]
            /\ BitsBefore(Len(blocks)) = 8 * (8 + n + 32 * (N + 1))
            /\ \A m \in 1..Len(blocks) : Len(blocks[m].ecc) = 32

\* C6 witness: a payload of two full blocks has been framed
C6_Witness == pc = "check" /\ Len(input) = 446 /\ Len(blocks) = 3

\* C7: no mutation on capacity failure.  Nothing is written before the
\* capacity test, and a rejected carrier is the original, bit for bit.
C7_NoMutationOnReject ==
    pc \in {"start", "check", "too_small"} => (img = Original /\ wlog = <<>>)

\* C7 witness: a carrier has been rejected
C7_Witness == pc = "too_small" /\ Len(blocks) = 2

\* the walker has visited si + 1 cells (all of them from the last index on)
WalkedCells == Cardinality(visited) = (IF si < sw * sh THEN si + 1 ELSE sw * sh)

\* C8: spiral bijection.  For every index inside the rectangle spiral_coord
\* is the cell the reference walker stands on, a cell it had not visited
\* before; after width*height indices every cell has been visited; for
\* every index from width*height on spiral_coord is None.
C8_SpiralBijection ==
    /\ si < sw * sh =>
          /\ scoord = Some(<<sx, sy>>)
          /\ sx \in 0..(sw - 1) /\ sy \in 0..(sh - 1)
          /\ WalkedCells
    /\ si >= sw * sh - 1 => visited = (0..(sw - 1)) \X (0..(sh - 1))
    /\ si >= sw * sh => scoord = None

\* C8 witness: a rectangle whose last ring is a strip has been walked to its end
C8_Witness == sw = 5 /\ sh = 3 /\ si = sw * sh - 1 /\ scoord = Some(<<3, 1>>)

\* C9: layout symmetry.  From the header's length decode derives the block
\* count, region size and per-block data lengths encode used, and every bit
\* encode wrote went to the slot (pixel, channel, byte, bit position) decode
\* reads for that bit of that block; after a successful encode the bits
\* written are exactly the bits decode reads.
C9_LayoutSymmetry ==
    Accepted =>
        LET data_len == ReadUintLe(blocks[1].data, 1)
            N == DecNumBlocks(data_len)
            region == DecRegionSize(width, height, N)
            decLen(k) == IF k = 0 THEN USIZE_SIZE ELSE DecBlockDataLen(data_len, k)
        IN  /\ N = Len(blocks) - 1
            /\ region = block_region_size
            /\ \A k \in 0..N : decLen(k) = Len(blocks[k + 1].data)
            /\ \A m \in 1..Len(wlog) :
                  LET e == wlog[m]
                      b == BlockBit(e)
                  IN  /\ b < 8 * (decLen(e.blk) + ECC_CODE_LEN)
                      /\ DecSlot(width, e.blk * region, b)
                           = <<e.x, e.y, e.chan, b \div 8, e.bitpos>>
                      /\ m = BitsBefore(e.blk) + b + 1
            /\ pc = "encoded" => Len(wlog) = RequiredBits

\* C9 witness: three blocks, the last one short, have been written
C9_Witness == pc = "encoded" /\ Len(blocks) = 3 /\ Len(blocks[3].data) = 1

\* C10: no abort in mid-write.  After the capacity test has passed, encode
\* never stops on a pixel outside the image.
C10_NoMidWriteAbort == ~(pc = "panic")
====
